---- MODULE Spec2Model ----
(***************************************************************************)
(* Model of instaautomation.py: the JSON-backed state store, the Telegram  *)
(* command handlers (run one at a time by the dispatcher thread), the      *)
(* background posting worker and the autoz worker, which share the module  *)
(* level dict `data`, the lock `data_lock` and the file data.json.         *)
(*                                                                         *)
(* Times are seconds on one clock (datetime.now()); None is a time that is *)
(* not set.  A code such as "vid3" is the record [k |-> "vid", n |-> 3],   *)
(* "autoz:name" is [k |-> "autoz", u |-> "name"]; a path is the record of  *)
(* the directory and the code the file name is formatted from.             *)
(***************************************************************************)
EXTENDS Integers, Sequences, FiniteSets, Bags, TLC

\* ------------------------------------------------------------ bounds
MaxTime == 30        \* the clock stops here
TickStep == 15       \* seconds between two readings of the clock
MaxVideos == 2       \* videos the queue may hold
MaxPosts == 3        \* posts the Instagram account may receive
MaxRestarts == 1     \* process restarts (RestartSpec)
MaxSched == 2        \* entries of the scheduled list (SchedSpec)
MaxChat == 4         \* messages of the chat (ChatSpec)

\* ------------------------------------------------- program constants
INSTAPOST_SLEEP_AFTER_FAIL == 30
PRIORITY_WEIGHT == 3
DEFAULT_INTERVAL_MIN == 1800
DEFAULT_INTERVAL_MAX == 3600
TIMER_FLOOR == 10            \* settimer_cmd: mn < 10 is refused
RETRY_DELAY == 60            \* background_worker: retry in 60 seconds
POLL_SLEEP == 5              \* background_worker: time.sleep(5)
AUTOZ_IDLE_SLEEP == 10       \* autozmode_worker: time.sleep(10)
ADMIN_CHAT_ID == 1           \* os.getenv("ADMIN_CHAT_ID"), configured
ASK_SCHED_VIDEO == 0
ASK_SCHED_CAPTION == 1
ASK_SCHED_TIME == 2
END == -1                    \* ConversationHandler.END
None == -1                   \* a time that is not set

\* --------------------------------------------------------- inputs
Users == {1, 2}                       \* Telegram user ids; 1 is the admin
Senders == {1}                        \* the users who write while the workers run
Captions == {"", "cap"}               \* caption texts
TimerTokens == {<<"9">>, <<"1", "1">>, <<"1", "x">>}
TimerArgLists ==
  {<<>>, <<<<"1", "1">>>>, <<<<"1", "1">>, <<"1", "1">>, <<"1", "1">>>>}
    \cup {<<a, b>> : a \in TimerTokens, b \in TimerTokens}
LongTimerArgs == {20}                  \* /settimer arguments
AUTOZ_TARGETS == <<"acct">>           \* os.getenv("AUTOZ_TARGETS")
Usernames == {"acct", "other"}               \* /autoz_addtarget arguments
SchedTimes == {0, 10}                 \* parsed YYYY-MM-DD HH:MM values

NoCode == [k |-> "none", n |-> 0, u |-> ""]
vid(n) == [k |-> "vid", n |-> n, u |-> ""]
shd(n) == [k |-> "shd", n |-> n, u |-> ""]
autoz(username) == [k |-> "autoz", n |-> 0, u |-> username]
\* os.path.join(VIDEO_DIR, f"{code}.mp4")
mp4(code) == [dir |-> "videos", name |-> code]
\* os.path.join(VIDEO_DIR, f"autoz_{username}_{new_code}.mp4")
autoz_mp4(username, code) == [dir |-> "videos", name |-> [k |-> "autoz", n |-> code.n, u |-> username]]
NoPath == [dir |-> "", name |-> NoCode]

Threads == {"disp", "bg", "az"}

DEFAULT_DATA ==
  [caption |-> "",
   interval_min |-> DEFAULT_INTERVAL_MIN,
   interval_max |-> DEFAULT_INTERVAL_MAX,
   videos |-> <<>>,
   scheduled |-> <<>>,
   last_post |-> [video_code |-> NoCode, time |-> None],
   is_running |-> FALSE,
   next_queue_post_time |-> None,
   autozmode |-> [enabled |-> FALSE, targets |-> AUTOZ_TARGETS, last_run |-> None]]

VARIABLES
  now,          \* datetime.now()
  data,         \* the module-level dict `data`
  file,         \* the content of data.json
  files,        \* the video files that exist under VIDEO_DIR
  data_lock,    \* the thread that holds data_lock, or "free"
  pc,           \* where each thread is
  bg,           \* locals of background_worker
  az,           \* locals of autozmode_worker
  hd,           \* locals of the handler the dispatcher is running
  post,         \* arguments of each thread's post_to_instagram call
  conv,         \* ConversationHandler state of each user
  user_data,    \* context.user_data of each user
  ig_client,    \* TRUE when the cached Instagram client is logged in
  ig_lock,      \* the thread that holds ig_lock, or "free"
  ig_posts,     \* the posts on the Instagram account (a bag)
  restarts,     \* process restarts so far
  issued,       \* the codes given to the videos added so far (history)
  queue_done,   \* when the last successful queue upload of this run ended,
                \* and interval_min at that moment (history)
  chat          \* the messages the dispatcher has taken (ChatSpec)

state == <<now, data, file, files, data_lock, pc, bg, az, hd, post, conv,
           user_data, ig_client, ig_posts, restarts, issued, queue_done, ig_lock>>

vars == <<state, chat>>

\* ------------------------------------------------------------ helpers
Range(q) == {q[i] : i \in 1..Len(q)}

\* generate_vid_code: the first vid<n>, n = 1, 2, ..., that no video has
RECURSIVE vid_code_from(_, _)
vid_code_from(existing, n) ==
  IF vid(n) \notin existing THEN vid(n) ELSE vid_code_from(existing, n + 1)

\* faulty variant: the code is numbered after the length of the list
generate_vid_code_count(d) == vid(Len(d.videos) + 1)

generate_vid_code(d) == vid_code_from({v.code : v \in Range(d.videos)}, 1)

\* generate_shd_code: the first shd<n>, n = 1, 2, ..., that no entry has
RECURSIVE shd_code_from(_, _)
shd_code_from(existing, n) ==
  IF shd(n) \notin existing THEN shd(n) ELSE shd_code_from(existing, n + 1)

\* faulty variant: the code is numbered after the length of the list
generate_shd_code_count(d) == shd(Len(d.scheduled) + 1)

generate_shd_code(d) == shd_code_from({s.shd_code : s \in Range(d.scheduled)}, 1)

\* find_video_by_code: the videos that have the code (the code returns the first)
find_video_by_code(d, code) == SelectSeq(d.videos, LAMBDA v : v.code = code)

\* random.randint(a, b): the values it can return; none when a > b (ValueError).
\* Of a long range the values next to its ends are kept.
RandSpread == 0
\* faulty variant: the draw starts at 0
randint_from_zero(a, b) == {x \in 0..b : x = 0 \/ x = b}

randint(a, b) == {x \in a..b : x <= a + RandSpread \/ x = b}

\* faulty variant: a priority video is put on the list once
RECURSIVE weighted_once(_)
weighted_once(videos) ==
  IF videos = <<>> THEN <<>> ELSE <<Head(videos)>> \o weighted_once(Tail(videos))

\* weighted_random_choice: the list random.choice draws from
RECURSIVE weighted(_)
weighted(videos) ==
  IF videos = <<>> THEN <<>>
  ELSE LET v == Head(videos)
       IN  (IF v.type = "priority" THEN [i \in 1..PRIORITY_WEIGHT |-> v] ELSE <<v>>)
           \o weighted(Tail(videos))

weighted_random_choice(videos) == Range(weighted(videos))

\* load_data: the dict read from data.json, DEFAULT_DATA when there is no file
load_data(exists, content) == IF exists THEN content ELSE DEFAULT_DATA

Max(a, b) == IF a >= b THEN a ELSE b

\* ------------------------------------------------------- initial state
Entry(n, t, c, st) ==
  [shd_code |-> shd(n), video_path |-> mp4(shd(n)), datetime |-> t,
   caption |-> c, status |-> st]

\* scheduled lists a data.json left by an earlier run holds
StoredScheduled ==
  { <<>>,
    <<Entry(1, 0, "", "Pending"), Entry(2, 10, "own", "Pending")>>,
    <<Entry(1, 0, "", "Posted"), Entry(2, 0, "own", "Pending")>> }

\* no data.json, or the data.json of an earlier run, which did /settimer 10 10
StartFiles ==
  {[exists |-> FALSE, content |-> DEFAULT_DATA]} \cup
  {[exists |-> TRUE,
    content |-> [DEFAULT_DATA EXCEPT !.scheduled = s,
                                     !.interval_min = TIMER_FLOOR,
                                     !.interval_max = TIMER_FLOOR]] :
      s \in StoredScheduled \ {<<>>}}

PostedOf(d) ==
  {[path |-> s.video_path, caption |-> s.caption] :
      s \in {e \in Range(d.scheduled) : e.status = "Posted"}}

bg0 == [now |-> 0, scheduled_copy |-> <<>>, idx |-> 0, vids_copy |-> <<>>,
        chosen |-> NoCode, wake |-> 0]
az0 == [username |-> "", path |-> NoPath, wake |-> 0]
hd0 == [u |-> 0, cmd |-> "", code |-> NoCode, mn |-> 0, mx |-> 0]
post0 == [path |-> NoPath, caption |-> ""]
qd0 == [time |-> None, min |-> 0]
ud0 == [add_type |-> "", sched_video_path |-> NoPath, sched_caption |-> ""]

Boot(d) ==
  /\ data = d
  /\ file = d
  /\ data_lock = "free"
  /\ pc = [t \in Threads |-> IF t = "disp" THEN "idle" ELSE "loop"]
  /\ bg = bg0
  /\ az = az0
  /\ hd = hd0
  /\ post = [t \in Threads |-> post0]
  /\ conv = [u \in Users |-> END]
  /\ user_data = [u \in Users |-> ud0]
  /\ ig_client = FALSE
  /\ ig_lock = "free"

Init ==
  \E f \in StartFiles :
    /\ Boot(load_data(f.exists, f.content))
    /\ now = 0
    /\ files = {s.video_path : s \in Range(f.content.scheduled)}
    /\ ig_posts = SetToBag(PostedOf(f.content))
    /\ restarts = 0
    /\ issued = {v.code : v \in Range(f.content.videos)}
    /\ queue_done = qd0
    /\ chat = <<>>

\* the clock: time passes
Tick ==
  /\ now + TickStep <= MaxTime
  /\ now' = now + TickStep
  /\ UNCHANGED <<data, file, files, data_lock, pc, bg, az, hd, post, conv,
                 user_data, ig_client, ig_posts, restarts, issued, queue_done, ig_lock, chat>>

\* --------------------------------------------------------- dispatcher
\* The Updater's dispatcher thread runs one handler at a time; a handler
\* is a sequence of steps the two worker threads interleave with.
Idle == pc["disp"] = "idle"

\* data_lock.acquire() by thread t returns: data_lock = threading.Lock(),
\* which no thread can take twice
acquire(t) == data_lock = "free"

Goto(t, p) == pc' = [pc EXCEPT ![t] = p]

\* admin_only: the wrapped handler runs for this user
admin_only(u) == ADMIN_CHAT_ID = None \/ u = ADMIN_CHAT_ID

\* the handlers of main() that take a message which is no command, in the
\* order dp.add_handler registered them (all in group 0)
message_handlers == <<"receive_video_for_add", "conv_handler">>

\* Handler.check_update of the handler for a message of this kind from u
check_update(h, u, kind) ==
  IF h = "receive_video_for_add" THEN kind \in {"video", "document"}
  ELSE \/ conv[u] = ASK_SCHED_VIDEO /\ kind \in {"video", "document"}
       \/ conv[u] \in {ASK_SCHED_CAPTION, ASK_SCHED_TIME} /\ kind = "text"

\* Dispatcher.process_update: the first handler of the group that matches
RECURSIVE first_match(_, _, _)
first_match(hs, u, kind) ==
  IF hs = <<>> THEN "none"
  ELSE IF check_update(Head(hs), u, kind) THEN Head(hs)
  ELSE first_match(Tail(hs), u, kind)

process_update(u, kind) == first_match(message_handlers, u, kind)

addvideo_start(u) ==
  /\ Idle
  /\ user_data' = IF admin_only(u) THEN [user_data EXCEPT ![u].add_type = "normal"]
                  ELSE user_data
  /\ UNCHANGED <<now, data, file, files, data_lock, pc, bg, az, hd, post, conv,
                 ig_client, ig_posts, restarts, issued, queue_done, ig_lock, chat>>

addpriority_start(u) ==
  /\ Idle
  /\ user_data' = IF admin_only(u) THEN [user_data EXCEPT ![u].add_type = "priority"]
                  ELSE user_data
  /\ UNCHANGED <<now, data, file, files, data_lock, pc, bg, az, hd, post, conv,
                 ig_client, ig_posts, restarts, issued, queue_done, ig_lock, chat>>

\* receive_video_for_add; ok: file.download succeeded
receive_video_for_add(u, ok) ==
  LET add_type == IF user_data[u].add_type = "" THEN "normal" ELSE user_data[u].add_type
      new_code == generate_vid_code(data)
      path     == mp4(new_code)
  IN  IF ok
      THEN /\ Len(data.videos) < MaxVideos
           /\ files' = files \cup {path}
           /\ data' = [data EXCEPT !.videos =
                         Append(@, [code |-> new_code, path |-> path, type |-> add_type])]
           /\ hd' = [hd0 EXCEPT !.u = u, !.cmd = "add"]
           /\ Goto("disp", "save")
           /\ issued' = issued \cup {new_code}
           /\ UNCHANGED <<now, file, data_lock, bg, az, post, conv, user_data,
                          ig_client, ig_posts, restarts, queue_done, ig_lock>>
      ELSE /\ user_data' = [user_data EXCEPT ![u].add_type = ""]
           /\ UNCHANGED <<now, data, file, files, data_lock, pc, bg, az, hd, post,
                          conv, ig_client, ig_posts, restarts, issued, queue_done, ig_lock>>

\* schedule_start
schedule_start(u) ==
  /\ Idle
  /\ conv' = [conv EXCEPT ![u] = ASK_SCHED_VIDEO]
  /\ UNCHANGED <<now, data, file, files, data_lock, pc, bg, az, hd, post,
                 user_data, ig_client, ig_posts, restarts, issued, queue_done, ig_lock>>

\* schedule_receive_video; ok: file.download succeeded
schedule_receive_video(u, ok) ==
  LET path == mp4(generate_shd_code(data))
  IN  /\ files' = IF ok THEN files \cup {path} ELSE files
      /\ user_data' = IF ok THEN [user_data EXCEPT ![u].sched_video_path = path]
                      ELSE user_data
      /\ conv' = [conv EXCEPT ![u] = IF ok THEN ASK_SCHED_CAPTION ELSE END]
      /\ UNCHANGED <<now, data, file, data_lock, pc, bg, az, hd, post,
                     ig_client, ig_posts, restarts, issued, queue_done, ig_lock>>

\* schedule_receive_caption
schedule_receive_caption(u, text) ==
  /\ user_data' = [user_data EXCEPT ![u].sched_caption = text]
  /\ conv' = [conv EXCEPT ![u] = ASK_SCHED_TIME]
  /\ UNCHANGED <<now, data, file, files, data_lock, pc, bg, az, hd, post,
                 ig_client, ig_posts, restarts, issued, queue_done, ig_lock>>

\* schedule_receive_time; dt: parse_datetime(text), None for a text that is
\* no YYYY-MM-DD HH:MM.  The entry is appended, then save_data is called;
\* the user_data is cleared and the conversation ended after it returns.
schedule_receive_time(u, dt) ==
  IF dt = None
  THEN UNCHANGED state
  ELSE /\ data' = [data EXCEPT !.scheduled =
                     Append(@, [shd_code |-> generate_shd_code(data),
                                video_path |-> user_data[u].sched_video_path,
                                datetime |-> dt,
                                caption |-> user_data[u].sched_caption,
                                status |-> "Pending"])]
       /\ hd' = [hd0 EXCEPT !.u = u, !.cmd = "sched"]
       /\ Goto("disp", "save")
       /\ UNCHANGED <<now, file, files, data_lock, bg, az, post, conv, user_data,
                      ig_client, ig_posts, restarts, issued, queue_done, ig_lock>>

\* a message that is no command: a video, a document or a text
message(u, kind, ok, text, dt) ==
  /\ Idle
  /\ LET h == process_update(u, kind)
     IN  IF h = "receive_video_for_add" THEN receive_video_for_add(u, ok)
         ELSE IF h = "none" THEN UNCHANGED state
         ELSE IF conv[u] = ASK_SCHED_VIDEO THEN schedule_receive_video(u, ok)
         ELSE IF conv[u] = ASK_SCHED_CAPTION THEN schedule_receive_caption(u, text)
         ELSE schedule_receive_time(u, dt)

\* remove_cmd: the file is removed, then (remove_meta) the list entry;
\* an exception of os.remove is passed over and the file stays
remove_cmd(code) ==
  /\ Idle
  /\ LET found == find_video_by_code(data, code)
     IN  IF found = <<>>
         THEN UNCHANGED <<files, hd, pc>>
         ELSE /\ \E ok \in BOOLEAN :
                   files' = IF ok THEN files \ {found[1].path} ELSE files
              /\ hd' = [hd0 EXCEPT !.cmd = "remove", !.code = code]
              /\ Goto("disp", "remove_meta")
  /\ UNCHANGED <<now, data, file, data_lock, bg, az, post, conv, user_data,
                 ig_client, ig_posts, restarts, issued, queue_done, ig_lock, chat>>

remove_meta ==
  /\ pc["disp"] = "remove_meta"
  /\ data' = [data EXCEPT !.videos = SelectSeq(@, LAMBDA x : x.code # hd.code)]
  /\ Goto("disp", "save")
  /\ UNCHANGED <<now, file, files, data_lock, bg, az, hd, post, conv, user_data,
                 ig_client, ig_posts, restarts, issued, queue_done, ig_lock, chat>>

\* v["type"] = "normal" on the first video that has the code
set_normal(videos, code) ==
  LET i == CHOOSE j \in 1..Len(videos) :
             /\ videos[j].code = code
             /\ \A m \in 1..(j - 1) : videos[m].code # code
  IN  [videos EXCEPT ![i].type = "normal"]

removepriority_cmd(code) ==
  /\ Idle
  /\ find_video_by_code(data, code) # <<>>
  /\ data' = [data EXCEPT !.videos = set_normal(@, code)]
  /\ hd' = [hd0 EXCEPT !.cmd = "removepriority"]
  /\ Goto("disp", "save")
  /\ UNCHANGED <<now, file, files, data_lock, bg, az, post, conv, user_data,
                 ig_client, ig_posts, restarts, issued, queue_done, ig_lock, chat>>

setcaption_cmd(text) ==
  /\ Idle
  /\ text # ""
  /\ data' = [data EXCEPT !.caption = text]
  /\ hd' = [hd0 EXCEPT !.cmd = "setcaption"]
  /\ Goto("disp", "save")
  /\ UNCHANGED <<now, file, files, data_lock, bg, az, post, conv, user_data,
                 ig_client, ig_posts, restarts, issued, queue_done, ig_lock, chat>>

removecaption_cmd ==
  /\ Idle
  /\ data' = [data EXCEPT !.caption = ""]
  /\ hd' = [hd0 EXCEPT !.cmd = "removecaption"]
  /\ Goto("disp", "save")
  /\ UNCHANGED <<now, file, files, data_lock, bg, az, post, conv, user_data,
                 ig_client, ig_posts, restarts, issued, queue_done, ig_lock, chat>>

\* settimer_cmd with two integer arguments: interval_min is assigned, then
\* (settimer_max) interval_max, then save_data is called
\* faulty variant: every pair of integers is accepted
settimer_valid_any(mn, mx) == mn = mn /\ mx = mx

settimer_valid(mn, mx) == ~(mn < TIMER_FLOOR \/ mx < mn)

settimer_cmd(mn, mx) ==
  /\ Idle
  /\ IF settimer_valid(mn, mx)
     THEN /\ data' = [data EXCEPT !.interval_min = mn]
          /\ hd' = [hd0 EXCEPT !.cmd = "settimer", !.mn = mn, !.mx = mx]
          /\ Goto("disp", "settimer_max")
     ELSE UNCHANGED <<data, hd, pc>>
  /\ UNCHANGED <<now, file, files, data_lock, bg, az, post, conv, user_data,
                 ig_client, ig_posts, restarts, issued, queue_done, ig_lock, chat>>

settimer_max ==
  /\ pc["disp"] = "settimer_max"
  /\ data' = [data EXCEPT !.interval_max = hd.mx]
  /\ Goto("disp", "save")
  /\ UNCHANGED <<now, file, files, data_lock, bg, az, hd, post, conv, user_data,
                 ig_client, ig_posts, restarts, issued, queue_done, ig_lock, chat>>

\* int(): an optional sign and decimal digits; anything else raises ValueError
Digit == ("0" :> 0) @@ ("1" :> 1) @@ ("2" :> 2) @@ ("3" :> 3) @@ ("4" :> 4) @@
         ("5" :> 5) @@ ("6" :> 6) @@ ("7" :> 7) @@ ("8" :> 8) @@ ("9" :> 9)

Unsigned(tok) == IF Len(tok) > 0 /\ tok[1] \in {"-", "+"} THEN Tail(tok) ELSE tok

is_int(tok) ==
  /\ Len(Unsigned(tok)) > 0
  /\ \A i \in 1..Len(Unsigned(tok)) : Unsigned(tok)[i] \in DOMAIN Digit

RECURSIVE decimal(_)
decimal(ds) ==
  IF ds = <<>> THEN 0
  ELSE 10 * decimal(SubSeq(ds, 1, Len(ds) - 1)) + Digit[ds[Len(ds)]]

int(tok) == IF tok[1] = "-" THEN 0 - decimal(Unsigned(tok)) ELSE decimal(Unsigned(tok))

\* settimer_cmd as the dispatcher calls it, with the words after the command
settimer_args(args) ==
  IF Len(args) = 2 /\ is_int(args[1]) /\ is_int(args[2])
  THEN settimer_cmd(int(args[1]), int(args[2]))
  ELSE Idle /\ UNCHANGED vars

\* startposting_cmd: is_running is set, then (start_next) next_queue_post_time
startposting_cmd ==
  /\ Idle
  /\ IF data.is_running
     THEN UNCHANGED <<data, hd, pc>>
     ELSE /\ data' = [data EXCEPT !.is_running = TRUE]
          /\ hd' = [hd0 EXCEPT !.cmd = "startposting"]
          /\ Goto("disp", "start_next")
  /\ UNCHANGED <<now, file, files, data_lock, bg, az, post, conv, user_data,
                 ig_client, ig_posts, restarts, issued, queue_done, ig_lock, chat>>

start_next ==
  /\ pc["disp"] = "start_next"
  /\ \E r \in randint(data.interval_min, data.interval_max) :
       data' = [data EXCEPT !.next_queue_post_time = now + r]
  /\ Goto("disp", "save")
  /\ UNCHANGED <<now, file, files, data_lock, bg, az, hd, post, conv, user_data,
                 ig_client, ig_posts, restarts, issued, queue_done, ig_lock, chat>>

\* stopposting_cmd: is_running is cleared, then (stop_next) next_queue_post_time
stopposting_cmd ==
  /\ Idle
  /\ IF ~data.is_running
     THEN UNCHANGED <<data, hd, pc>>
     ELSE /\ data' = [data EXCEPT !.is_running = FALSE]
          /\ hd' = [hd0 EXCEPT !.cmd = "stopposting"]
          /\ Goto("disp", "stop_next")
  /\ UNCHANGED <<now, file, files, data_lock, bg, az, post, conv, user_data,
                 ig_client, ig_posts, restarts, issued, queue_done, ig_lock, chat>>

stop_next ==
  /\ pc["disp"] = "stop_next"
  /\ data' = [data EXCEPT !.next_queue_post_time = None]
  /\ Goto("disp", "save")
  /\ UNCHANGED <<now, file, files, data_lock, bg, az, hd, post, conv, user_data,
                 ig_client, ig_posts, restarts, issued, queue_done, ig_lock, chat>>

\* removescheduled_cmd: the file is removed, then (removescheduled_meta) the entry
removescheduled_cmd(code) ==
  /\ Idle
  /\ LET exists == SelectSeq(data.scheduled, LAMBDA e : e.shd_code = code)
     IN  IF exists = <<>>
         THEN UNCHANGED <<files, hd, pc>>
         ELSE /\ files' = files \ {exists[1].video_path}
              /\ hd' = [hd0 EXCEPT !.cmd = "removescheduled", !.code = code]
              /\ Goto("disp", "removescheduled_meta")
  /\ UNCHANGED <<now, data, file, data_lock, bg, az, post, conv, user_data,
                 ig_client, ig_posts, restarts, issued, queue_done, ig_lock, chat>>

removescheduled_meta ==
  /\ pc["disp"] = "removescheduled_meta"
  /\ data' = [data EXCEPT !.scheduled = SelectSeq(@, LAMBDA e : e.shd_code # hd.code)]
  /\ Goto("disp", "save")
  /\ UNCHANGED <<now, file, files, data_lock, bg, az, hd, post, conv, user_data,
                 ig_client, ig_posts, restarts, issued, queue_done, ig_lock, chat>>

\* autoz_start_cmd, autoz_stop_cmd
autoz_switch_cmd(on) ==
  /\ Idle
  /\ data' = [data EXCEPT !.autozmode.enabled = on]
  /\ hd' = [hd0 EXCEPT !.cmd = "autoz_switch"]
  /\ Goto("disp", "save")
  /\ UNCHANGED <<now, file, files, data_lock, bg, az, post, conv, user_data,
                 ig_client, ig_posts, restarts, issued, queue_done, ig_lock, chat>>

\* autoz_addtarget_cmd: data_lock is taken; a new name is appended and
\* save_data is called with the lock held
autoz_addtarget_cmd(username) ==
  /\ Idle
  /\ acquire("disp")
  /\ username \notin Range(data.autozmode.targets)
  /\ data' = [data EXCEPT !.autozmode.targets = Append(@, username)]
  /\ data_lock' = "disp"
  /\ hd' = [hd0 EXCEPT !.cmd = "autoz_addtarget"]
  /\ Goto("disp", "save")
  /\ UNCHANGED <<now, file, files, bg, az, post, conv, user_data,
                 ig_client, ig_posts, restarts, issued, queue_done, ig_lock, chat>>

\* autoz_rmtarget_cmd: data_lock is taken; the name is removed and save_data
\* is called with the lock held
autoz_rmtarget_cmd(username) ==
  /\ Idle
  /\ acquire("disp")
  /\ username \in Range(data.autozmode.targets)
  /\ data' = [data EXCEPT !.autozmode.targets = SelectSeq(@, LAMBDA t : t # username)]
  /\ data_lock' = "disp"
  /\ hd' = [hd0 EXCEPT !.cmd = "autoz_rmtarget"]
  /\ Goto("disp", "save")
  /\ UNCHANGED <<now, file, files, bg, az, post, conv, user_data,
                 ig_client, ig_posts, restarts, issued, queue_done, ig_lock, chat>>

\* ---------------------------------------------------------- save_data
\* The places where a thread calls save_data, and where it goes on after
\* save_data has returned (a worker calls it inside `with data_lock`, and
\* leaves that block next).
SavePcs == {"save", "s_save", "q_save", "a_save_post", "a_save_run"}

after_save(p) ==
  CASE p = "save"        -> "idle"
    [] p = "s_save"      -> "s_next"
    [] p = "q_save"      -> "sleep"
    [] p = "a_save_post" -> "a_lastrun"
    [] p = "a_save_run"  -> "sleep"

\* wake-up time of a thread that goes to sleep at the end of its loop
sleep_of(t) == IF t = "az" THEN AUTOZ_IDLE_SLEEP ELSE POLL_SLEEP

\* save_data: with data_lock: json.dump(data) to data.json; the caller's own
\* `with data_lock` block, when it is in one, ends right after
save_data(t) ==
  /\ pc[t] \in SavePcs
  /\ acquire(t)
  /\ file' = data
  /\ Goto(t, after_save(pc[t]))
  /\ hd' = IF t = "disp" THEN hd0 ELSE hd
  /\ user_data' =
       IF t = "disp" /\ hd.cmd = "add" THEN [user_data EXCEPT ![hd.u].add_type = ""]
       ELSE IF t = "disp" /\ hd.cmd = "sched" THEN [user_data EXCEPT ![hd.u] = ud0]
       ELSE user_data
  /\ conv' = IF t = "disp" /\ hd.cmd = "sched" THEN [conv EXCEPT ![hd.u] = END] ELSE conv
  /\ bg' = IF t = "bg" THEN [bg EXCEPT !.wake = now + POLL_SLEEP] ELSE bg
  /\ az' = IF t = "az" THEN [az EXCEPT !.wake = now + AUTOZ_IDLE_SLEEP] ELSE az
  /\ data_lock' = "free"
  /\ UNCHANGED <<now, data, files, post, ig_client, ig_posts, restarts, issued, queue_done, ig_lock, chat>>

\* ------------------------------------------------- Instagram adapter
\* a thread is at a *_post pc when it calls post_to_instagram, at a *_login
\* pc while client.login runs inside ig_login (a_run_login: the ig_login call
\* of download_random_from_target_and_add_or_post), at a *_upload pc while
\* client.video_upload runs
PostPcs == {"s_post", "q_post", "a_post"}
LoginPcs == {"s_login", "q_login", "a_login", "a_run_login"}
UploadPcs == {"s_upload", "q_upload", "a_upload"}

login_pc(p) == CASE p = "s_post" -> "s_login" [] p = "q_post" -> "q_login"
                 [] p = "a_post" -> "a_login"

upload_pc(p) == CASE p \in {"s_post", "s_login"} -> "s_upload"
                  [] p \in {"q_post", "q_login"} -> "q_upload"
                  [] p \in {"a_post", "a_login"} -> "a_upload"

ok_pc(p) == CASE p = "s_upload" -> "s_ok" [] p = "q_upload" -> "q_ok"
              [] p = "a_upload" -> "a_ok"

\* faulty variant: a failed post is taken for a successful one
failed_as_ok(p) == IF p \in UploadPcs THEN ok_pc(p) ELSE ok_pc(upload_pc(p))

\* where post_to_instagram's caller goes when it returned False: the
\* background worker sleeps INSTAPOST_SLEEP_AFTER_FAIL
failed_pc(p) ==
  CASE p \in {"s_post", "s_login", "s_upload"} -> "s_failsleep"
    [] p \in {"q_post", "q_login", "q_upload"} -> "q_failsleep"
    [] p \in {"a_post", "a_login", "a_upload"} -> "a_lastrun"

post_failed(t) ==
  /\ Goto(t, failed_pc(pc[t]))
  /\ bg' = IF t = "bg" THEN [bg EXCEPT !.wake = now + INSTAPOST_SLEEP_AFTER_FAIL] ELSE bg

\* faulty variant: ig_lock is not waited for
ig_acquire_unlocked(t) == t \in Threads

\* ig_lock.acquire() by thread t returns: ig_lock = threading.Lock()
ig_acquire(t) == ig_lock = "free"

\* post_to_instagram calls ig_login: with ig_lock, the cached client is
\* returned when there is one (and client.video_upload is next); else
\* client.login is called, with ig_lock held
post_to_instagram(t) ==
  /\ pc[t] \in PostPcs
  /\ ig_acquire(t)
  /\ IF ig_client
     THEN Goto(t, upload_pc(pc[t])) /\ ig_lock' = ig_lock
     ELSE Goto(t, login_pc(pc[t])) /\ ig_lock' = t
  /\ UNCHANGED <<now, data, file, files, data_lock, bg, az, hd, post, conv,
                 user_data, ig_client, ig_posts, restarts, issued, queue_done, chat>>

\* ig_login, from client.login on: the login succeeds (ok) and the client is
\* cached, or it raises and ig_client is set to None; ig_lock is released
\* and the caller goes on with the client or without
ig_login(t) ==
  /\ pc[t] \in LoginPcs
  /\ ig_lock' = "free"
  /\ \E ok \in BOOLEAN :
       /\ ig_client' = ok
       /\ IF pc[t] = "a_run_login"
          THEN /\ bg' = bg
               /\ IF ok
                  THEN /\ \E username \in Range(data.autozmode.targets) :
                            az' = [az EXCEPT !.username = username]
                       /\ Goto(t, "a_download")
                  ELSE Goto(t, "a_lastrun") /\ az' = az
          ELSE /\ az' = az
               /\ IF ok
                  THEN Goto(t, upload_pc(pc[t])) /\ bg' = bg
                  ELSE post_failed(t)
  /\ UNCHANGED <<now, data, file, files, data_lock, hd, post, conv,
                 user_data, ig_posts, restarts, issued, queue_done, chat>>

\* client.video_upload: it raises when the file is missing, and may raise
\* for any other reason; post_to_instagram returns True or False
video_upload(t) ==
  /\ pc[t] \in UploadPcs
  /\ \E ok \in BOOLEAN :
       IF ok
       THEN /\ post[t].path \in files
            /\ BagCardinality(ig_posts) < MaxPosts
            /\ ig_posts' = ig_posts (+) SetToBag({post[t]})
            /\ Goto(t, ok_pc(pc[t]))
            /\ bg' = bg
            /\ queue_done' = IF pc[t] = "q_upload"
                             THEN [time |-> now, min |-> data.interval_min]
                             ELSE queue_done
       ELSE /\ post_failed(t)
            /\ UNCHANGED <<ig_posts, queue_done>>
  /\ UNCHANGED <<now, data, file, files, data_lock, az, hd, post, conv,
                 user_data, ig_client, ig_lock, restarts, issued, chat>>

\* --------------------------------------------------- background_worker
go_sleep(t) == Goto(t, "sleep")

\* top of the loop: now = datetime.now()
bg_loop ==
  /\ pc["bg"] = "loop"
  /\ bg' = [bg0 EXCEPT !.now = now]
  /\ Goto("bg", "s_copy")
  /\ UNCHANGED <<now, data, file, files, data_lock, az, hd, post, conv,
                 user_data, ig_client, ig_posts, restarts, issued, queue_done, ig_lock, chat>>

\* with data_lock: scheduled_copy = list(data["scheduled"])
bg_copy_scheduled ==
  /\ pc["bg"] = "s_copy"
  /\ acquire("bg")
  /\ bg' = [bg EXCEPT !.scheduled_copy = data.scheduled, !.idx = 1]
  /\ Goto("bg", "s_iter")
  /\ UNCHANGED <<now, data, file, files, data_lock, az, hd, post, conv,
                 user_data, ig_client, ig_posts, restarts, issued, queue_done, ig_lock, chat>>

\* faulty variant: the time of the entry is not looked at
due_any_time(s, t) == s.status = "Pending"

\* the entry is due: it is Pending and its time has come
due(s, t) == s.status = "Pending" /\ t >= s.datetime

\* the caption of a scheduled upload
\* faulty variant: the entry's own caption is ignored
sched_caption_global(s, d) == d.caption

sched_caption(s, d) == IF s.caption # "" THEN s.caption ELSE d.caption

\* for s in scheduled_copy: skip it, or call post_to_instagram
bg_scheduled_iter ==
  /\ pc["bg"] = "s_iter"
  /\ IF bg.idx > Len(bg.scheduled_copy)
     THEN Goto("bg", "q_check") /\ UNCHANGED <<bg, post>>
     ELSE LET s == bg.scheduled_copy[bg.idx]
          IN  IF due(s, bg.now)
              THEN /\ post' = [post EXCEPT !["bg"] =
                                 [path |-> s.video_path, caption |-> sched_caption(s, data)]]
                   /\ Goto("bg", "s_post")
                   /\ bg' = bg
              ELSE /\ bg' = [bg EXCEPT !.idx = @ + 1]
                   /\ UNCHANGED <<pc, post>>
  /\ UNCHANGED <<now, data, file, files, data_lock, az, hd, conv,
                 user_data, ig_client, ig_posts, restarts, issued, queue_done, ig_lock, chat>>

\* faulty variant: every entry is marked, whatever its code
mark_posted_all(scheduled, code) ==
  [i \in 1..Len(scheduled) |-> [scheduled[i] EXCEPT !.status = "Posted"]]

\* faulty variant: the entries of another code are set to Pending
mark_posted_only(scheduled, code) ==
  [i \in 1..Len(scheduled) |->
     [scheduled[i] EXCEPT !.status =
        IF scheduled[i].shd_code = code THEN "Posted" ELSE "Pending"]]

\* for el in data["scheduled"]: if el["shd_code"] == s["shd_code"]: Posted
mark_posted(scheduled, code) ==
  [i \in 1..Len(scheduled) |->
     IF scheduled[i].shd_code = code THEN [scheduled[i] EXCEPT !.status = "Posted"]
     ELSE scheduled[i]]

\* success: with data_lock: mark the entry, set last_post; save_data is next
bg_scheduled_ok ==
  /\ pc["bg"] = "s_ok"
  /\ acquire("bg")
  /\ data_lock' = "bg"
  /\ LET s == bg.scheduled_copy[bg.idx]
     IN  data' = [data EXCEPT
                    !.scheduled = mark_posted(@, s.shd_code),
                    !.last_post = [video_code |-> s.shd_code, time |-> now]]
  /\ Goto("bg", "s_save")
  /\ UNCHANGED <<now, file, files, bg, az, hd, post, conv,
                 user_data, ig_client, ig_posts, restarts, issued, queue_done, ig_lock, chat>>

\* the next entry: after the sleep that follows a failed upload, or after
\* the `with data_lock` block of a successful one
bg_scheduled_next ==
  /\ pc["bg"] \in {"s_failsleep", "s_next"}
  /\ pc["bg"] = "s_failsleep" => now >= bg.wake
  /\ bg' = [bg EXCEPT !.idx = @ + 1]
  /\ Goto("bg", "s_iter")
  /\ UNCHANGED <<now, data, file, files, data_lock, az, hd, post, conv,
                 user_data, ig_client, ig_posts, restarts, issued, queue_done, ig_lock, chat>>

\* do_post of the queue branch, from is_running and next_queue_post_time
do_post(d, t) ==
  d.is_running /\ (d.next_queue_post_time = None \/ t >= d.next_queue_post_time)

\* 2) queue posting: if data.get("is_running") ... do_post
bg_queue_check ==
  /\ pc["bg"] = "q_check"
  /\ IF do_post(data, bg.now)
     THEN Goto("bg", "q_copy") /\ bg' = bg
     ELSE go_sleep("bg") /\ bg' = [bg0 EXCEPT !.wake = now + POLL_SLEEP]
  /\ UNCHANGED <<now, data, file, files, data_lock, az, hd, post, conv,
                 user_data, ig_client, ig_posts, restarts, issued, queue_done, ig_lock, chat>>

\* with data_lock: vids_copy = list(data["videos"])
bg_copy_videos ==
  /\ pc["bg"] = "q_copy"
  /\ acquire("bg")
  /\ bg' = [bg EXCEPT !.vids_copy = data.videos]
  /\ Goto("bg", "q_choose")
  /\ UNCHANGED <<now, data, file, files, data_lock, az, hd, post, conv,
                 user_data, ig_client, ig_posts, restarts, issued, queue_done, ig_lock, chat>>

\* chosen = weighted_random_choice(vids_copy); post_to_instagram is called
\* for it with the global caption; with no video the retry time is set next
bg_choose ==
  /\ pc["bg"] = "q_choose"
  /\ IF bg.vids_copy = <<>>
     THEN Goto("bg", "q_retry") /\ UNCHANGED <<bg, post>>
     ELSE \E chosen \in weighted_random_choice(bg.vids_copy) :
            /\ bg' = [bg EXCEPT !.chosen = chosen.code]
            /\ post' = [post EXCEPT !["bg"] =
                          [path |-> chosen.path, caption |-> data.caption]]
            /\ Goto("bg", "q_post")
  /\ UNCHANGED <<now, data, file, files, data_lock, az, hd, conv,
                 user_data, ig_client, ig_posts, restarts, issued, queue_done, ig_lock, chat>>

\* success: with data_lock: last_post, then random.randint(interval_min,
\* interval_max), which raises ValueError when interval_min > interval_max:
\* the block is left, the loop's except clause sleeps 5 seconds.  Else
\* next_queue_post_time is set and save_data is next.
bg_queue_ok ==
  /\ pc["bg"] = "q_ok"
  /\ acquire("bg")
  /\ LET d == [data EXCEPT !.last_post = [video_code |-> bg.chosen, time |-> now]]
         rs == randint(data.interval_min, data.interval_max)
     IN  IF rs = {}
         THEN /\ data' = d
              /\ go_sleep("bg")
              /\ bg' = [bg0 EXCEPT !.wake = now + POLL_SLEEP]
              /\ data_lock' = data_lock
         ELSE /\ \E r \in rs : data' = [d EXCEPT !.next_queue_post_time = now + r]
              /\ Goto("bg", "q_save")
              /\ bg' = bg
              /\ data_lock' = "bg"
  /\ UNCHANGED <<now, file, files, az, hd, post, conv,
                 user_data, ig_client, ig_posts, restarts, issued, queue_done, ig_lock, chat>>

\* after a failed upload and its sleep, or with no video to post:
\* with data_lock: next_queue_post_time = now + 60 seconds; save_data is next
bg_queue_retry ==
  /\ pc["bg"] \in {"q_failsleep", "q_retry"}
  /\ pc["bg"] = "q_failsleep" => now >= bg.wake
  /\ acquire("bg")
  /\ data_lock' = "bg"
  /\ data' = [data EXCEPT !.next_queue_post_time = now + RETRY_DELAY]
  /\ Goto("bg", "q_save")
  /\ UNCHANGED <<now, file, files, bg, az, hd, post, conv,
                 user_data, ig_client, ig_posts, restarts, issued, queue_done, ig_lock, chat>>

\* time.sleep at the end of a worker's loop is over
wake_up(t) ==
  /\ pc[t] = "sleep"
  /\ now >= (IF t = "bg" THEN bg.wake ELSE az.wake)
  /\ Goto(t, "loop")
  /\ UNCHANGED <<now, data, file, files, data_lock, bg, az, hd, post, conv,
                 user_data, ig_client, ig_posts, restarts, issued, queue_done, ig_lock, chat>>

\* ---------------------------------------------------- autozmode_worker
\* top of the loop: enabled is read; wait = random.randint(max(10, mn),
\* max(mn, mx)) is drawn for the sleep after the run
az_loop ==
  /\ pc["az"] = "loop"
  /\ IF data.autozmode.enabled
     THEN /\ randint(Max(TIMER_FLOOR, data.interval_min),
                     Max(data.interval_min, data.interval_max)) # {}
          /\ Goto("az", "a_run")
          /\ az' = az0
     ELSE /\ go_sleep("az")
          /\ az' = [az0 EXCEPT !.wake = now + AUTOZ_IDLE_SLEEP]
  /\ UNCHANGED <<now, data, file, files, data_lock, bg, hd, post, conv,
                 user_data, ig_client, ig_posts, restarts, issued, queue_done, ig_lock, chat>>

\* download_random_from_target_and_add_or_post: targets, ig_login, the
\* random target
az_run ==
  /\ pc["az"] = "a_run"
  /\ IF data.autozmode.targets = <<>>
     THEN Goto("az", "a_lastrun") /\ UNCHANGED <<az, ig_lock>>
     ELSE /\ ig_acquire("az")
          /\ IF ig_client
             THEN /\ \E username \in Range(data.autozmode.targets) :
                       az' = [az EXCEPT !.username = username]
                  /\ Goto("az", "a_download")
                  /\ ig_lock' = ig_lock
             ELSE /\ Goto("az", "a_run_login")
                  /\ ig_lock' = "az"
                  /\ az' = az
  /\ UNCHANGED <<now, data, file, files, data_lock, bg, hd, post, conv,
                 user_data, ig_client, ig_posts, restarts, issued, queue_done, chat>>

\* the media list and the download (ok: a video was found and downloaded to
\* autoz_<username>_<new_code>.mp4); post_to_instagram is called for it
az_download ==
  /\ pc["az"] = "a_download"
  /\ \E ok \in BOOLEAN :
       IF ok
       THEN LET path == autoz_mp4(az.username, generate_vid_code(data))
            IN  /\ files' = files \cup {path}
                /\ post' = [post EXCEPT !["az"] = [path |-> path, caption |-> data.caption]]
                /\ Goto("az", "a_post")
       ELSE Goto("az", "a_lastrun") /\ UNCHANGED <<files, post>>
  /\ UNCHANGED <<now, data, file, data_lock, bg, az, hd, conv,
                 user_data, ig_client, ig_posts, restarts, issued, queue_done, ig_lock, chat>>

\* success: with data_lock: last_post = autoz:<username>; save_data is next
az_ok ==
  /\ pc["az"] = "a_ok"
  /\ acquire("az")
  /\ data_lock' = "az"
  /\ data' = [data EXCEPT !.last_post = [video_code |-> autoz(az.username), time |-> now]]
  /\ Goto("az", "a_save_post")
  /\ UNCHANGED <<now, file, files, bg, az, hd, post, conv,
                 user_data, ig_client, ig_posts, restarts, issued, queue_done, ig_lock, chat>>

\* after the run: with data_lock: last_run = now; save_data is next
az_lastrun ==
  /\ pc["az"] = "a_lastrun"
  /\ acquire("az")
  /\ data_lock' = "az"
  /\ data' = [data EXCEPT !.autozmode.last_run = now]
  /\ Goto("az", "a_save_run")
  /\ UNCHANGED <<now, file, files, bg, az, hd, post, conv,
                 user_data, ig_client, ig_posts, restarts, issued, queue_done, ig_lock, chat>>

\* ------------------------------------------------------ specification
\* the commands that start, stop and time the posting and that change the
\* scheduled list, and the messages that are no commands
Command ==
  \/ \E u \in Senders : schedule_start(u) /\ UNCHANGED chat
  \/ \E u \in Senders, kind \in {"video", "text"}, ok \in BOOLEAN,
        text \in Captions, dt \in SchedTimes \cup {None} :
       message(u, kind, ok, text, dt) /\ UNCHANGED chat
  \/ \E args \in TimerArgLists : settimer_args(args)
  \/ startposting_cmd
  \/ stopposting_cmd
  \/ \E n \in 1..2 : removescheduled_cmd(shd(n))

\* the commands that manage the queue, the caption and the autoz targets
OtherCommand ==
  \/ \E on \in BOOLEAN : autoz_switch_cmd(on)
  \/ \E u \in Users : addvideo_start(u)
  \/ \E u \in Users : addpriority_start(u)
  \/ \E n \in 1..MaxVideos : remove_cmd(vid(n))
  \/ \E n \in 1..MaxVideos : removepriority_cmd(vid(n))
  \/ \E text \in Captions : setcaption_cmd(text)
  \/ removecaption_cmd
  \/ \E username \in Usernames : autoz_addtarget_cmd(username)
  \/ \E username \in Usernames : autoz_rmtarget_cmd(username)

HandlerStep ==
  \/ settimer_max
  \/ start_next
  \/ stop_next
  \/ removescheduled_meta

BackgroundWorker ==
  \/ bg_loop
  \/ bg_copy_scheduled
  \/ bg_scheduled_iter
  \/ bg_scheduled_ok
  \/ bg_scheduled_next
  \/ bg_queue_check
  \/ bg_copy_videos
  \/ bg_choose
  \/ bg_queue_ok
  \/ bg_queue_retry

AutozWorker ==
  \/ az_loop
  \/ az_run
  \/ az_download
  \/ az_ok
  \/ az_lastrun

Step ==
  \/ Tick
  \/ Command
  \/ HandlerStep
  \/ \E t \in Threads : save_data(t)
  \/ \E t \in Threads : post_to_instagram(t)
  \/ \E t \in Threads : ig_login(t)
  \/ \E t \in Threads : video_upload(t)
  \/ \E t \in Threads : wake_up(t)
  \/ BackgroundWorker

\* one run of the process: the dispatcher and the background worker
Next == Step

Spec == Init /\ [][Next]_vars

\* The process is stopped and started again while every thread is asleep,
\* idle or waiting for data_lock: data is load_data() of data.json, the
\* threads start over; the files and the Instagram account stay.
Quiet ==
  /\ pc["disp"] \in {"idle", "save"}
  /\ pc["bg"] \in {"loop", "sleep", "s_save", "q_save"}

Restart ==
  /\ Quiet
  /\ restarts < MaxRestarts
  /\ restarts' = restarts + 1
  /\ data' = load_data(TRUE, file)
  /\ data_lock' = "free"
  /\ pc' = [t \in Threads |-> IF t = "disp" THEN "idle" ELSE "loop"]
  /\ bg' = bg0
  /\ az' = az0
  /\ hd' = hd0
  /\ post' = [t \in Threads |-> post0]
  /\ conv' = [u \in Users |-> END]
  /\ user_data' = [u \in Users |-> ud0]
  /\ ig_client' = FALSE
  /\ ig_lock' = "free"
  /\ queue_done' = qd0
  /\ UNCHANGED <<now, file, files, ig_posts, issued, chat>>


\* The threads are scheduled fairly: a thread that can take its next step
\* takes it, time passes, and a handler that has begun goes on.  The user
\* adds videos and starts and stops the posting.
FairCommand ==
  \/ \E u \in Senders, ok \in BOOLEAN :
       message(u, "video", ok, "", None) /\ UNCHANGED chat
  \/ startposting_cmd
  \/ stopposting_cmd

FairStep ==
  \/ Tick
  \/ FairCommand
  \/ start_next
  \/ stop_next
  \/ \E t \in Threads : save_data(t)
  \/ \E t \in Threads : post_to_instagram(t)
  \/ \E t \in Threads : ig_login(t)
  \/ \E t \in Threads : video_upload(t)
  \/ \E t \in Threads : wake_up(t)
  \/ BackgroundWorker

FairNext == FairStep

\* the next step of the background worker thread
BgStep ==
  \/ BackgroundWorker
  \/ save_data("bg")
  \/ post_to_instagram("bg")
  \/ ig_login("bg")
  \/ video_upload("bg")
  \/ wake_up("bg")

\* the next step of the handler the dispatcher thread is running
DispStep ==
  \/ start_next
  \/ stop_next
  \/ save_data("disp")

RestartNext == FairNext \/ Restart

RestartSpec == Init /\ [][RestartNext]_vars

FairSpec ==
  Init /\ [][FairNext]_vars /\ WF_vars(Tick) /\ WF_vars(BgStep) /\ WF_vars(DispStep)

\* The chat alone: the dispatcher takes the /schedule commands and the
\* messages of the users, and each is written to the chat.
Update(u, kind, ok, dt) ==
  [u |-> u, kind |-> kind, ok |-> ok, dt |-> dt]

ChatStep ==
  \/ \E u \in Users :
       /\ Len(chat) < MaxChat
       /\ schedule_start(u)
       /\ chat' = Append(chat, Update(u, "/schedule", TRUE, None))
  \/ \E u \in Users, ok \in BOOLEAN :
       /\ Len(chat) < MaxChat
       /\ message(u, "video", ok, "", None)
       /\ chat' = Append(chat, Update(u, "video", ok, None))
  \/ \E u \in Users, text \in Captions, dt \in SchedTimes \cup {None} :
       /\ Len(chat) < MaxChat
       /\ message(u, "text", TRUE, text, dt)
       /\ chat' = Append(chat, Update(u, "text", TRUE, dt))

ChatNext ==
  \/ ChatStep
  \/ save_data("disp")

ChatSpec == Init /\ [][ChatNext]_vars

\* The posting queue in the dispatcher thread: videos are added as normal
\* or priority, removed, and made normal again.
QueueCommand ==
  \/ \E u \in Users : addvideo_start(u)
  \/ \E u \in Users : addpriority_start(u)
  \/ \E u \in Users, ok \in BOOLEAN :
       message(u, "video", ok, "", None) /\ UNCHANGED chat
  \/ \E n \in 1..MaxVideos : remove_cmd(vid(n))
  \/ \E n \in 1..MaxVideos : removepriority_cmd(vid(n))

QueueStep ==
  \/ QueueCommand
  \/ remove_meta
  \/ save_data("disp")

QueueNext == QueueStep

QueueSpec == Init /\ [][QueueNext]_vars

\* The videos lists a data.json can hold: up to MaxVideos videos, each
\* normal or priority.
RECURSIVE VideoLists(_)
VideoLists(n) ==
  IF n = 0 THEN {<<>>}
  ELSE LET shorter == VideoLists(n - 1)
       IN  shorter \cup
           {Append(q, [code |-> vid(Len(q) + 1), path |-> mp4(vid(Len(q) + 1)), type |-> ty]) :
              q \in {x \in shorter : Len(x) = n - 1}, ty \in {"normal", "priority"}}

\* The background worker alone, started on a data.json that holds a videos
\* list and has the posting started or stopped.
ChoiceInit ==
  \E videos \in VideoLists(MaxVideos), running \in BOOLEAN :
    /\ Boot([DEFAULT_DATA EXCEPT !.videos = videos, !.is_running = running])
    /\ now = 0
    /\ files = {v.path : v \in Range(videos)}
    /\ ig_posts = EmptyBag
    /\ restarts = 0
    /\ issued = {v.code : v \in Range(videos)}
    /\ queue_done = qd0
    /\ chat = <<>>

ChoiceNext ==
  \/ Tick
  \/ bg_loop
  \/ bg_copy_scheduled
  \/ bg_scheduled_iter
  \/ bg_queue_check
  \/ bg_copy_videos
  \/ bg_choose
  \/ post_to_instagram("bg")
  \/ ig_login("bg")
  \/ video_upload("bg")
  \/ bg_queue_ok
  \/ bg_queue_retry
  \/ wake_up("bg")

ChoiceSpec == ChoiceInit /\ [][ChoiceNext]_vars

\* The schedule conversation as ConversationHandler runs it, each callback
\* called in its state, for several users at once, with /removescheduled.
\* It takes every step on the scheduled list that the dispatcher can take,
\* and the callbacks in every order the conversation states allow.
SchedStep ==
  \/ \E u \in Users : schedule_start(u) /\ UNCHANGED chat
  \/ \E u \in Users, ok \in BOOLEAN :
       /\ Idle /\ conv[u] = ASK_SCHED_VIDEO
       /\ schedule_receive_video(u, ok) /\ UNCHANGED chat
  \/ \E u \in Users :
       /\ Idle /\ conv[u] = ASK_SCHED_CAPTION
       /\ schedule_receive_caption(u, "cap") /\ UNCHANGED chat
  \/ \E u \in Users, dt \in {0, None} :
       /\ Idle /\ conv[u] = ASK_SCHED_TIME
       /\ Len(data.scheduled) < MaxSched
       /\ schedule_receive_time(u, dt) /\ UNCHANGED chat
  \/ \E n \in 1..MaxSched : removescheduled_cmd(shd(n))
  \/ removescheduled_meta
  \/ save_data("disp")

SchedNext == SchedStep

\* a store that has no scheduled entry yet
SchedInit == Init /\ data.scheduled = <<>>

SchedSpec == SchedInit /\ [][SchedNext]_vars

\* Autoz mode beside the posting queue: the user adds videos, starts the
\* posting and switches autoz mode; both workers run.
AutozCommand ==
  \/ \E u \in Senders, ok \in BOOLEAN :
       message(u, "video", ok, "", None) /\ UNCHANGED chat
  \/ startposting_cmd
  \/ \E on \in BOOLEAN : autoz_switch_cmd(on)

AutozStep ==
  \/ Tick
  \/ AutozCommand
  \/ start_next
  \/ \E t \in Threads : save_data(t)
  \/ \E t \in Threads : post_to_instagram(t)
  \/ \E t \in Threads : ig_login(t)
  \/ \E t \in Threads : video_upload(t)
  \/ \E t \in Threads : wake_up(t)
  \/ BackgroundWorker
  \/ AutozWorker

AutozNext == AutozStep

AutozSpec == Init /\ [][AutozNext]_vars

\* The timer beside the posting queue: a store whose intervals an earlier
\* run has set to the least value; the user adds videos, starts the
\* posting and sets a longer interval while the background worker posts.
TimerInit ==
  /\ Boot([DEFAULT_DATA EXCEPT !.interval_min = TIMER_FLOOR,
                               !.interval_max = TIMER_FLOOR])
  /\ now = 0
  /\ files = {}
  /\ ig_posts = EmptyBag
  /\ restarts = 0
  /\ issued = {}
  /\ queue_done = qd0
  /\ chat = <<>>

TimerCommand ==
  \/ \E u \in Senders, ok \in BOOLEAN :
       message(u, "video", ok, "", None) /\ UNCHANGED chat
  \/ startposting_cmd
  \/ \E mn \in LongTimerArgs, mx \in LongTimerArgs : settimer_cmd(mn, mx)

\* the background worker on a store without scheduled entries
QueueWorker ==
  \/ bg_loop
  \/ bg_copy_scheduled
  \/ bg_scheduled_iter
  \/ bg_queue_check
  \/ bg_copy_videos
  \/ bg_choose
  \/ bg_queue_ok
  \/ bg_queue_retry

TimerStep ==
  \/ Tick
  \/ TimerCommand
  \/ settimer_max
  \/ start_next
  \/ \E t \in Threads : save_data(t)
  \/ \E t \in Threads : post_to_instagram(t)
  \/ \E t \in Threads : ig_login(t)
  \/ \E t \in Threads : video_upload(t)
  \/ \E t \in Threads : wake_up(t)
  \/ QueueWorker

TimerNext == TimerStep

TimerSpec == TimerInit /\ [][TimerNext]_vars

\* ============================================================== claims
\* successful uploads of the file to the Instagram account
Uploads(path) ==
  BagCardinality([p \in {q \in DOMAIN ig_posts : q.path = path} |-> ig_posts[p]])

\* the entry the background worker is posting
Current == bg.scheduled_copy[bg.idx]

\* C1: every queue upload the background worker starts (its call of
\* post_to_instagram for a video chosen from the videos list) starts in a
\* state where is_running is true.
C1_QueueUploadStartsRunning ==
  [][(pc["bg"] = "q_choose" /\ pc'["bg"] = "q_post") => data.is_running]_vars

\* C2: queue posting goes on: after each successful queue upload the
\* background worker sets next_queue_post_time, saves and reaches the end of
\* its loop, from where it polls and uploads again.
C2_QueuePostingGoesOn == (pc["bg"] = "q_ok") ~> (pc["bg"] = "sleep")

\* C3: every mutation of the shared state is followed by a completed
\* rewrite of data.json: when data differs from the file, the file
\* eventually equals data again.
C3_MutationIsSaved == (data # file) ~> (data = file)

\* C4: a scheduled entry has status Posted only if its own video was
\* uploaded successfully, under every interleaving of the worker with
\* /removescheduled and the schedule conversation.
C4_PostedOnlyAfterUpload ==
  \A i \in 1..Len(data.scheduled) :
    data.scheduled[i].status = "Posted" => Uploads(data.scheduled[i].video_path) >= 1

\* the worker has marked the entry it uploaded, after a /removescheduled
\* had removed another entry
C4_Witness ==
  /\ pc["bg"] = "s_save"
  /\ Len(data.scheduled) < Len(file.scheduled)
  /\ \E i \in 1..Len(data.scheduled) :
       /\ data.scheduled[i].shd_code = Current.shd_code
       /\ data.scheduled[i].status = "Posted"
       /\ Uploads(data.scheduled[i].video_path) = 1

same_entry(a, b) ==
  /\ a.shd_code = b.shd_code
  /\ a.video_path = b.video_path
  /\ a.datetime = b.datetime
  /\ a.caption = b.caption

\* C5: no step of a handler or of the worker takes an entry from Posted
\* back to Pending: an entry that is Posted and still exists after the step
\* is Posted after it.
C5_PostedNeverReverts ==
  [][\A i \in 1..Len(data.scheduled) : \A j \in 1..Len(data'.scheduled) :
       (data.scheduled[i].status = "Posted"
          /\ same_entry(data.scheduled[i], data'.scheduled[j]))
       => data'.scheduled[j].status = "Posted"]_vars

\* an entry that was Posted at the start is still Posted after the worker
\* has marked another entry in this run
C5_Witness ==
  /\ Len(data.scheduled) = 2
  /\ data.scheduled[1].status = "Posted"
  /\ data.scheduled[2].status = "Posted"
  /\ data.last_post.video_code = data.scheduled[2].shd_code
  /\ file.scheduled[2].status = "Pending"

\* C6: each scheduled entry is uploaded successfully at most once, also
\* when the process is restarted and reloads data.json after the upload.
C6_UploadedAtMostOnce == \A n \in 1..2 : Uploads(mp4(shd(n))) <= 1

PendingDue(n) ==
  \E e \in Range(data.scheduled) :
    e.shd_code = shd(n) /\ e.status = "Pending" /\ now >= e.datetime

\* an upload or a login has failed, or the clock has stopped while the
\* worker sleeps
Excused ==
  \/ pc["bg"] \in {"s_failsleep", "q_failsleep"}
  \/ pc["bg"] = "sleep" /\ bg.wake > MaxTime

\* C7: a Pending entry whose datetime has passed is eventually uploaded,
\* whether is_running is true or false, unless it is removed or an upload
\* fails.
C7_DueEntryIsUploaded ==
  \A n \in 1..2 :
    PendingDue(n) ~>
      (\/ Uploads(mp4(shd(n))) >= 1
       \/ shd(n) \notin {e.shd_code : e \in Range(data.scheduled)}
       \/ Excused)

\* C8: while the background worker uploads a scheduled entry, the entry's
\* datetime has passed and its status is Pending.
C8_UploadOnlyDuePending ==
  pc["bg"] \in {"s_post", "s_upload"} =>
    /\ now >= Current.datetime
    /\ Current.status = "Pending"
    /\ \A e \in Range(data.scheduled) :
         e.shd_code = Current.shd_code => e.status = "Pending"

\* the worker uploads an entry whose time had not come when the process
\* started
C8_Witness == pc["bg"] = "s_upload" /\ Current.datetime > 0

\* the chat so far is the first k messages of one user's guided
\* conversation: /schedule, a video that downloads, a text, a text
Guided(k) ==
  /\ Len(chat) = k
  /\ \A i \in 1..k : chat[i].u = chat[1].u
  /\ chat[1].kind = "/schedule"
  /\ k >= 2 => chat[2].kind = "video" /\ chat[2].ok
  /\ k >= 3 => chat[3].kind = "text"
  /\ k >= 4 => chat[4].kind = "text"

\* C9: the conversation of a user who sends /schedule, a video, a caption
\* and a time passes through ASK_SCHED_VIDEO, ASK_SCHED_CAPTION and
\* ASK_SCHED_TIME and ends with exactly one new Pending entry; an invalid
\* time keeps it in ASK_SCHED_TIME and appends nothing.
C9_GuidedConversation ==
  /\ Guided(1) => conv[chat[1].u] = ASK_SCHED_VIDEO
  /\ Guided(2) => conv[chat[1].u] = ASK_SCHED_CAPTION
  /\ Guided(3) => conv[chat[1].u] = ASK_SCHED_TIME
  /\ (Guided(4) /\ chat[4].dt = None) =>
       conv[chat[1].u] = ASK_SCHED_TIME /\ data.scheduled \in StoredScheduled
  /\ (Guided(4) /\ chat[4].dt # None /\ Idle) =>
       /\ conv[chat[1].u] = END
       /\ \E s0 \in StoredScheduled :
            /\ Len(data.scheduled) = Len(s0) + 1
            /\ SubSeq(data.scheduled, 1, Len(s0)) = s0
            /\ data.scheduled[Len(s0) + 1].status = "Pending"
            /\ data.scheduled[Len(s0) + 1].datetime = chat[4].dt

\* C10: interval_min <= interval_max in every reachable state, also in
\* those a worker can observe while a /settimer is being applied.
C10_IntervalOrdered == data.interval_min <= data.interval_max

\* the clock of the model has stopped before the worker's sleep is over
ClockEnd == bg.wake > MaxTime

\* C11: after a failed queue upload the background worker attempts another
\* queue upload, as long as is_running stays true and the videos list stays
\* non-empty; the failed attempt changes neither is_running nor the list.
C11_RetryAfterFailedUpload ==
  (pc["bg"] = "q_failsleep") ~>
    (pc["bg"] = "q_post" \/ ~data.is_running \/ data.videos = <<>> \/ ClockEnd)

\* C12: no two entries of the videos list have the same code.
C12_VideoCodesUnique ==
  \A i, j \in 1..Len(data.videos) :
    data.videos[i].code = data.videos[j].code => i = j

\* two videos were added, the first was removed and a third was added
C12_Witness ==
  /\ Len(data.videos) = 2
  /\ data.videos[1].code = vid(2)
  /\ data.videos[2].code = vid(1)

\* C13: no two entries of the scheduled list have the same shd_code.
C13_ShdCodesUnique ==
  \A i, j \in 1..Len(data.scheduled) :
    data.scheduled[i].shd_code = data.scheduled[j].shd_code => i = j

\* shd1 was removed with /removescheduled and a conversation has appended
\* a new entry, which got the code again
C13_Witness ==
  /\ Len(data.scheduled) = 2
  /\ data.scheduled[1].shd_code = shd(2)
  /\ data.scheduled[2].shd_code = shd(1)
  /\ data.scheduled[2].caption = "cap"

\* C14: generate_vid_code never returns a code that an earlier video had,
\* also after that video was removed: the code of a video that is added is
\* none of the codes given before.
C14_VideoCodesNeverReused ==
  [][Len(data'.videos) = Len(data.videos) + 1
       => data'.videos[Len(data'.videos)].code \notin issued]_vars

\* the entry and the file of a video code
InList(code) == \E v \in Range(data.videos) : v.code = code
OnDisk(code) == mp4(code) \in files

\* C15: /remove deletes file and metadata together: of the video that
\* /remove is removing or has removed, the list entry and the file both
\* exist or both do not, in every state.
C15_RemoveFileAndEntryTogether ==
  hd.cmd = "remove" => (InList(hd.code) <=> OnDisk(hd.code))

\* how often the sequence holds the value
Count(q, v) == Cardinality({i \in 1..Len(q) : q[i] = v})

\* the claim of C17 for one videos list
WeightedChoiceOf(videos) ==
  /\ \A v \in Range(videos) :
       Count(weighted(videos), v) = IF v.type = "priority" THEN PRIORITY_WEIGHT ELSE 1
  /\ weighted_random_choice(videos) = Range(videos)
  /\ (weighted_random_choice(videos) = {}) <=> (videos = <<>>)

\* C17: weighted_random_choice draws from a list that holds each priority
\* video PRIORITY_WEIGHT times and each other video once: its result is an
\* element of the input list, every video of the list can be the result,
\* and there is no result exactly when the list is empty.
C17_WeightedChoice ==
  /\ WeightedChoiceOf(data.videos)
  /\ WeightedChoiceOf(bg.vids_copy)
  /\ pc["bg"] \in {"q_post", "q_upload"} => bg.chosen \in {v.code : v \in Range(bg.vids_copy)}
  /\ pc["bg"] = "q_retry" => bg.vids_copy = <<>>

\* the worker has chosen the normal video of a list that also holds a
\* priority video
C17_Witness ==
  /\ pc["bg"] = "q_post"
  /\ \E v, w \in Range(bg.vids_copy) :
       v.type = "priority" /\ w.type = "normal" /\ bg.chosen = w.code

\* C16: when an upload through the cached client fails, the cached client
\* is dropped, so that the next posting attempt logs in again.
C16_ClientDroppedOnFailure ==
  [][\A t \in Threads :
       (pc[t] \in UploadPcs /\ pc'[t] = failed_pc(pc[t])) => ~ig_client']_vars

\* C18: with ADMIN_CHAT_ID configured, a message or command of a user with
\* another id changes neither the stored state nor the video files.
C18_OnlyAdminChangesState ==
  [][(/\ ADMIN_CHAT_ID # None
      /\ Len(chat') = Len(chat) + 1
      /\ chat'[Len(chat')].u # ADMIN_CHAT_ID)
     => (data' = data /\ files' = files)]_vars

\* C19: while autozmode.enabled is true the background worker starts no
\* queue upload from the stored videos list.
C19_NoQueueUploadInAutozMode ==
  [][(pc["bg"] = "q_choose" /\ pc'["bg"] = "q_post") => ~data.autozmode.enabled]_vars

\* C20: no thread blocks for ever on data_lock: a thread that holds the
\* lock releases it, so that a waiting thread gets it.
C20_LockIsReleased ==
  \A t \in Threads : (data_lock = t) ~> (data_lock = "free")

\* C21: between two consecutive successful queue uploads of the background
\* worker at least interval_min seconds pass, interval_min taken when the
\* first of the two ended.
C21_IntervalBetweenQueueUploads ==
  [][(pc["bg"] = "q_upload" /\ pc'["bg"] = "q_ok" /\ queue_done.time # None)
       => now >= queue_done.time + queue_done.min]_vars

\* ------------------------------------------------- captions of the uploads
\* the background worker with /setcaption and /removecaption
CaptionCommand ==
  \/ \E u \in Senders, ok \in BOOLEAN :
       message(u, "video", ok, "", None) /\ UNCHANGED chat
  \/ startposting_cmd
  \/ \E text \in Captions : setcaption_cmd(text)
  \/ removecaption_cmd

CaptionStep ==
  \/ Tick
  \/ CaptionCommand
  \/ start_next
  \/ \E t \in Threads : save_data(t)
  \/ \E t \in Threads : post_to_instagram(t)
  \/ \E t \in Threads : ig_login(t)
  \/ \E t \in Threads : video_upload(t)
  \/ \E t \in Threads : wake_up(t)
  \/ BackgroundWorker

CaptionNext == CaptionStep

CaptionSpec == Init /\ [][CaptionNext]_vars

\* a /stopposting that found the bot running has not yet returned
Stopping ==
  \/ pc["disp"] = "stop_next"
  \/ pc["disp"] = "save" /\ hd.cmd = "stopposting"

\* a /startposting that found the bot stopped has not yet returned
Starting ==
  \/ pc["disp"] = "start_next"
  \/ pc["disp"] = "save" /\ hd.cmd = "startposting"

\* C22: after a /stopposting has completed, next_queue_post_time is null
\* until the next /startposting: whenever the bot is stopped and no
\* /stopposting or /startposting is under way, next_queue_post_time is null.
C22_NoPostTimeWhileStopped ==
  (~data.is_running /\ ~Stopping /\ ~Starting) => data.next_queue_post_time = None

C24_ScheduleVideoNotQueued ==
  [][(/\ Len(chat') = Len(chat) + 1
      /\ chat'[Len(chat')].kind = "video"
      /\ conv[chat'[Len(chat')].u] = ASK_SCHED_VIDEO)
     => data'.videos = data.videos]_vars

\* C28: at most one Instagram upload is in progress at any time: the
\* background worker and the autoz worker are never both in
\* client.video_upload.
C28_OneUploadAtATime ==
  Cardinality({t \in Threads : pc[t] \in UploadPcs}) <= 1

\* C25: a /startposting that goes ahead found the bot stopped and a
\* /stopposting that goes ahead found it running (on a running, respectively
\* stopped, bot the handler changes nothing and writes nothing); the
\* /startposting on a stopped bot leaves is_running true and
\* next_queue_post_time between now + interval_min and now + interval_max,
\* and writes the file only through its save_data.
C25_StartStop ==
  [][/\ (pc["disp"] = "idle" /\ pc'["disp"] = "start_next")
          => (~data.is_running /\ data'.is_running /\ file' = file)
     /\ (pc["disp"] = "idle" /\ pc'["disp"] = "stop_next")
          => (data.is_running /\ ~data'.is_running /\ file' = file)
     /\ (pc["disp"] = "start_next" /\ pc'["disp"] # "start_next")
          => /\ data'.is_running
             /\ data'.next_queue_post_time >= now + data.interval_min
             /\ data'.next_queue_post_time <= now + data.interval_max
             /\ file' = file]_vars

C25_Witness ==
  /\ pc["disp"] = "save" /\ hd.cmd = "startposting"
  /\ data.is_running
  /\ data.next_queue_post_time = now + data.interval_min
  /\ now > 0

\* C26: interval_min and interval_max change only in a /settimer whose two
\* arguments are integers with min >= 10 and max >= min, and when that
\* /settimer returns both hold exactly the values given and are saved; any
\* other /settimer changes nothing.
C26_SetTimer ==
  [][/\ (data'.interval_min # data.interval_min \/ data'.interval_max # data.interval_max)
          => /\ hd'.cmd = "settimer"
             /\ hd'.mn >= TIMER_FLOOR /\ hd'.mx >= hd'.mn
             /\ data'.interval_min = hd'.mn
     /\ (hd.cmd = "settimer" /\ pc["disp"] = "save" /\ pc'["disp"] = "idle")
          => /\ data.interval_min = hd.mn /\ data.interval_max = hd.mx
             /\ file'.interval_min = hd.mn /\ file'.interval_max = hd.mx]_vars

C26_Witness ==
  /\ pc["disp"] = "save" /\ hd.cmd = "settimer"
  /\ data.interval_min = hd.mn /\ data.interval_max = hd.mx
  /\ file.interval_min # hd.mn

\* the code that names the item a worker has just posted
Posted(t) ==
  CASE pc[t] = "s_ok" -> {Current.shd_code}
    [] pc[t] = "q_ok" -> {v.code : v \in {w \in Range(bg.vids_copy) : w.path = post[t].path}}
    [] pc[t] = "a_ok" -> {autoz(u) : u \in {w \in Usernames : post[t].path.name.u = w}}
    [] OTHER -> {}

\* C27: last_post changes only in the step a worker takes after a
\* successful upload, and then names the item that was uploaded: the video
\* code for the queue, the shd_code for a scheduled entry, autoz:<username>
\* for autoz.  A failed upload and every command handler leave it unchanged.
C27_LastPostNamesUpload ==
  [][data'.last_post # data.last_post =>
       \E t \in {"bg", "az"} :
         /\ pc'[t] # pc[t]
         /\ Uploads(post[t].path) >= 1
         /\ (pc[t] = "s_ok" => post[t].path = Current.video_path)
         /\ data'.last_post.video_code \in Posted(t)
         /\ data'.last_post.time = now]_vars

C27_Witness ==
  /\ pc["bg"] = "q_save"
  /\ data.last_post.video_code = bg.chosen
  /\ bg.chosen # NoCode
  /\ Uploads(post["bg"].path) >= 1

\* C30: the caption the worker hands to post_to_instagram for a scheduled
\* entry is the entry's own caption when that is non-empty and the global
\* caption otherwise; for a video of the queue it is the global caption as
\* stored when the worker makes the call; the upload carries that caption.
C30_CaptionOfUpload ==
  [][/\ (pc["bg"] = "s_iter" /\ pc'["bg"] = "s_post")
          => post'["bg"].caption =
               IF Current.caption # "" THEN Current.caption ELSE data.caption
     /\ (pc["bg"] = "q_choose" /\ pc'["bg"] = "q_post")
          => post'["bg"].caption = data.caption
     /\ (pc["bg"] \in UploadPcs /\ pc'["bg"] \in {"s_ok", "q_ok"})
          => /\ post' = post
             /\ ig_posts' = ig_posts (+) SetToBag({post["bg"]})]_vars

\* a queue upload made with a caption set by /setcaption
C30_Witness ==
  /\ pc["bg"] = "q_ok"
  /\ post["bg"].caption = "cap"
  /\ BagIn(post["bg"], ig_posts)

\* the threads inside client.login
LoggingIn == {t \in Threads : pc[t] \in LoginPcs}

\* thread t calls ig_login in this step
CallsLogin(t) ==
  /\ pc'[t] # pc[t]
  /\ \/ pc[t] \in PostPcs
     \/ pc[t] = "a_run" /\ data.autozmode.targets # <<>>

\* C29: the Instagram client is cached per process: at most one login is in
\* progress at any time; a login is made only while no client is cached and
\* a cached client stays cached, so at most one login succeeds; a call of
\* ig_login with a cached client goes on with it without logging in, and a
\* call without one (after a failed login too) logs in.
C29_CachedClient ==
  [][/\ Cardinality(LoggingIn) <= 1
     /\ ig_client => ig_client'
     /\ \A t \in Threads :
          /\ (pc[t] \in LoginPcs /\ pc'[t] # pc[t]) => (~ig_client /\ ig_lock = t)
          /\ (CallsLogin(t) /\ ig_client) => (pc'[t] \notin LoginPcs /\ ig_client')
          /\ (CallsLogin(t) /\ ~ig_client) => (pc'[t] \in LoginPcs /\ ig_lock' = t)]_vars

\* the autoz worker is at its call of ig_login while the background worker
\* logs in
C29_Witness ==
  /\ pc["bg"] \in LoginPcs /\ ig_lock = "bg"
  /\ pc["az"] = "a_run" /\ data.autozmode.targets # <<>>

====
